---- MODULE Spec2Model ----
(***************************************************************************)
(* Weighted-wins NFL rankings (scripts/calculate_rankings.py).             *)
(*                                                                         *)
(* The schedule DataFrame is a sequence of game rows.  A nullable column   *)
(* value (pandas NaN / None) is the empty sequence NULL, a present value v *)
(* is <<v>>; comparisons with NULL are false, as comparisons with NaN are. *)
(* Team codes are the integers 1..NumTeams, whose order stands for the     *)
(* lexicographic order of the codes.  Floats are exact rationals           *)
(* [num, den]; rounded values are integers counted in units of 10^-digits. *)
(***************************************************************************)
EXTENDS Integers, Sequences, FiniteSets

(* ---- bounds of the model ---- *)
NumTeams == 3
NumLeagueTeams == 4
MaxWeek == 2
MaxScore == 1
MaxGames == 2
MaxSeasonGames == 3
MaxCount == 3
MaxClock == 2
MaxSaves == 3

(* ---- constants of the script ---- *)
CURRENT_SEASON == 2025
MAX_RETRIES == 3
RETRY_DELAY == 2

VARIABLES schedule, op, args, ret, columns, main, save, files

vars == <<schedule, op, args, ret, columns, main, save, files>>

(* ---- values ---- *)
NULL == <<>>

notna(x) == x # NULL

Nullable(S) == {NULL} \cup {<<v>> : v \in S}

Teams == 1..NumTeams

Weeks == 1..MaxWeek

Scores == 0..MaxScore

(* result = home_score - away_score, null unless both scores are present *)
ResultOf(hs, as) == IF notna(hs) /\ notna(as) THEN <<hs[1] - as[1]>> ELSE NULL

Game(w, h, a, hs, as) ==
    [week |-> w, home_team |-> h, away_team |-> a,
     home_score |-> hs, away_score |-> as, result |-> ResultOf(hs, as)]

GamesOf(T) ==
    {g \in {Game(w, h, a, hs, as) :
                w \in Weeks, h \in T, a \in T,
                hs \in Nullable(Scores), as \in Nullable(Scores)} :
        g.home_team # g.away_team}

(* rows come ordered by game id (season_week_away_home), one row per id *)
GameKey(g) == (g.week * (NumLeagueTeams + 1) + g.away_team) * (NumLeagueTeams + 1) + g.home_team

RECURSIVE SchedulesOfLen(_, _)
SchedulesOfLen(T, k) ==
    IF k = 0
    THEN {<<>>}
    ELSE {Append(p[1], p[2]) :
             p \in {q \in SchedulesOfLen(T, k - 1) \X GamesOf(T) :
                       IF q[1] = <<>> THEN TRUE
                       ELSE GameKey(q[1][Len(q[1])]) < GameKey(q[2])}}

(* the schedule is any such table of at most n rows over the teams T *)
DrawSchedule(T, n) ==
    \/ schedule = <<>>
    \/ \E k \in 1..n : \E s \in SchedulesOfLen(T, k - 1) : \E g \in GamesOf(T) :
          /\ IF s = <<>> THEN TRUE ELSE GameKey(s[Len(s)]) < GameKey(g)
          /\ schedule = Append(s, g)

(* pandas comparisons on a nullable column: false on NaN *)
gt0(x) == notna(x) /\ x[1] > 0

lt0(x) == notna(x) /\ x[1] < 0

eq0(x) == notna(x) /\ x[1] = 0

(* ---- get_game_results ---- *)
get_game_results(sched) == SelectSeq(sched, LAMBDA g : notna(g.home_score))

(* ---- get_team_record ---- *)
truthy(through_week) == notna(through_week) /\ through_week[1] # 0

is_win(g, team) ==
    \/ g.home_team = team /\ gt0(g.result)
    \/ g.away_team = team /\ lt0(g.result)

is_loss(g, team) ==
    \/ g.home_team = team /\ lt0(g.result)
    \/ g.away_team = team /\ gt0(g.result)

is_tie(g, team) ==
    /\ g.home_team = team \/ g.away_team = team
    /\ eq0(g.result)

get_team_record_home_only(sched, team, through_week) ==
    LET completed0 == get_game_results(sched)
        completed == IF truthy(through_week)
                     THEN SelectSeq(completed0, LAMBDA g : g.week <= through_week[1])
                     ELSE completed0
    IN [wins |-> Len(SelectSeq(completed, LAMBDA g : g.home_team = team /\ gt0(g.result))),
        losses |-> Len(SelectSeq(completed, LAMBDA g : is_loss(g, team))),
        ties |-> Len(SelectSeq(completed, LAMBDA g : is_tie(g, team)))]

get_team_record(sched, team, through_week) ==
    LET completed0 == get_game_results(sched)
        completed == IF truthy(through_week)
                     THEN SelectSeq(completed0, LAMBDA g : g.week <= through_week[1])
                     ELSE completed0
    IN [wins |-> Len(SelectSeq(completed, LAMBDA g : is_win(g, team))),
        losses |-> Len(SelectSeq(completed, LAMBDA g : is_loss(g, team))),
        ties |-> Len(SelectSeq(completed, LAMBDA g : is_tie(g, team)))]

(* ---- floats as exact rationals; round(x, digits) ---- *)
float(n) == [num |-> n, den |-> 1]

(* Python round(): nearest multiple of 10^-digits, halves to the even one; *)
(* the value returned is counted in units of 10^-digits                    *)
round(x, digits) ==
    LET n == x.num * (10 ^ digits)
        q == n \div x.den
        r == n % x.den
    IN IF 2 * r < x.den THEN q
       ELSE IF 2 * r > x.den THEN q + 1
       ELSE IF q % 2 = 0 THEN q ELSE q + 1

(* ---- calculate_win_percentage ---- *)
calculate_win_percentage_full_ties(wins, losses, ties) ==
    LET total_games == wins + losses + ties
    IN IF total_games = 0
       THEN float(0)
       ELSE [num |-> wins + ties, den |-> total_games]

calculate_win_percentage(wins, losses, ties) ==
    LET total_games == wins + losses + ties
    IN IF total_games = 0
       THEN float(0)
       ELSE [num |-> 2 * wins + ties, den |-> 2 * total_games]

(* ---- calculate_weighted_wins ---- *)
opponent_of(game, team) ==
    IF game.home_team = team THEN game.away_team ELSE game.home_team

RECURSIVE weighted_wins_loop_opponent_losses(_, _, _, _)
weighted_wins_loop_opponent_losses(sched, team, rows, weighted_wins) ==
    IF rows = <<>>
    THEN weighted_wins
    ELSE LET opp_record == get_team_record(sched, opponent_of(Head(rows), team), NULL)
         IN weighted_wins_loop_opponent_losses(sched, team, Tail(rows),
                                               weighted_wins + opp_record.losses)

RECURSIVE weighted_wins_loop(_, _, _, _)
weighted_wins_loop(sched, team, rows, weighted_wins) ==
    IF rows = <<>>
    THEN weighted_wins
    ELSE LET opp_record == get_team_record(sched, opponent_of(Head(rows), team), NULL)
         IN weighted_wins_loop(sched, team, Tail(rows), weighted_wins + opp_record.wins)

RECURSIVE drop_repeated_opponents(_, _, _)
drop_repeated_opponents(rows, team, seen) ==
    IF rows = <<>>
    THEN <<>>
    ELSE IF opponent_of(Head(rows), team) \in seen
         THEN drop_repeated_opponents(Tail(rows), team, seen)
         ELSE <<Head(rows)>>
              \o drop_repeated_opponents(Tail(rows), team,
                                         seen \cup {opponent_of(Head(rows), team)})

calculate_weighted_wins_once_per_opponent(sched, team) ==
    LET completed == get_game_results(sched)
        team_wins == SelectSeq(completed, LAMBDA g : is_win(g, team))
    IN weighted_wins_loop(sched, team, drop_repeated_opponents(team_wins, team, {}), 0)

calculate_weighted_wins(sched, team) ==
    LET completed == get_game_results(sched)
        team_wins == SelectSeq(completed, LAMBDA g : is_win(g, team))
    IN weighted_wins_loop(sched, team, team_wins, 0)

(* ---- calculate_weighted_losses ---- *)
RECURSIVE weighted_losses_loop_opponent_wins(_, _, _, _)
weighted_losses_loop_opponent_wins(sched, team, rows, weighted_losses) ==
    IF rows = <<>>
    THEN weighted_losses
    ELSE LET opp_record == get_team_record(sched, opponent_of(Head(rows), team), NULL)
         IN weighted_losses_loop_opponent_wins(sched, team, Tail(rows),
                                               weighted_losses - opp_record.wins)

RECURSIVE weighted_losses_loop(_, _, _, _)
weighted_losses_loop(sched, team, rows, weighted_losses) ==
    IF rows = <<>>
    THEN weighted_losses
    ELSE LET opp_record == get_team_record(sched, opponent_of(Head(rows), team), NULL)
         IN weighted_losses_loop(sched, team, Tail(rows), weighted_losses - opp_record.losses)

calculate_weighted_losses(sched, team) ==
    LET completed == get_game_results(sched)
        team_losses == SelectSeq(completed, LAMBDA g : is_loss(g, team))
    IN weighted_losses_loop(sched, team, team_losses, 0)

(* ---- calculate_total_score ---- *)
calculate_total_score_difference(weighted_wins, weighted_losses) ==
    weighted_wins - weighted_losses

calculate_total_score(weighted_wins, weighted_losses) == weighted_wins + weighted_losses

(* ---- calculate_all_rankings ---- *)
RECURSIVE sorted(_)
sorted(S) ==
    IF S = {}
    THEN <<>>
    ELSE LET m == CHOOSE x \in S : \A y \in S : x <= y
         IN <<m>> \o sorted(S \ {m})

RECURSIVE list_sort_ascending(_)
list_sort_ascending(rankings) ==
    IF rankings = <<>>
    THEN <<>>
    ELSE LET n == Len(rankings)
             x == rankings[n]
             front == list_sort_ascending(SubSeq(rankings, 1, n - 1))
             k == Cardinality({i \in 1..Len(front) : front[i].total <= x.total})
         IN SubSeq(front, 1, k) \o <<x>> \o SubSeq(front, k + 1, Len(front))

RECURSIVE list_sort_reverse_unstable(_)
list_sort_reverse_unstable(rankings) ==
    IF rankings = <<>>
    THEN <<>>
    ELSE LET n == Len(rankings)
             x == rankings[n]
             front == list_sort_reverse_unstable(SubSeq(rankings, 1, n - 1))
             k == Cardinality({i \in 1..Len(front) : front[i].total > x.total})
         IN SubSeq(front, 1, k) \o <<x>> \o SubSeq(front, k + 1, Len(front))

(* list.sort(key=total, reverse=True): stable, equal keys keep their order *)
RECURSIVE list_sort_reverse(_)
list_sort_reverse(rankings) ==
    IF rankings = <<>>
    THEN <<>>
    ELSE LET n == Len(rankings)
             x == rankings[n]
             front == list_sort_reverse(SubSeq(rankings, 1, n - 1))
             k == Cardinality({i \in 1..Len(front) : front[i].total >= x.total})
         IN SubSeq(front, 1, k) \o <<x>> \o SubSeq(front, k + 1, Len(front))

team_ranking(sched, team) ==
    LET record == get_team_record(sched, team, NULL)
        win_pct == calculate_win_percentage(record.wins, record.losses, record.ties)
        weighted_wins == calculate_weighted_wins(sched, team)
        weighted_losses == calculate_weighted_losses(sched, team)
        total == calculate_total_score(weighted_wins, weighted_losses)
    IN [team |-> team,
        wins |-> record.wins,
        losses |-> record.losses,
        ties |-> record.ties,
        win_pct |-> round(win_pct, 3),
        weighted_wins |-> round(float(weighted_wins), 2),
        weighted_losses |-> round(float(weighted_losses), 2),
        total |-> round(float(total), 2)]

calculate_all_rankings(sched) ==
    LET completed == get_game_results(sched)
        teams == {completed[i].home_team : i \in DOMAIN completed}
                 \cup {completed[i].away_team : i \in DOMAIN completed}
        order == sorted(teams)
    IN list_sort_reverse([i \in DOMAIN order |-> team_ranking(sched, order[i])])

(* ---- get_current_week ---- *)
RECURSIVE max_week(_)
max_week(rows) ==
    IF Len(rows) = 1
    THEN rows[1].week
    ELSE LET m == max_week(Tail(rows))
         IN IF rows[1].week >= m THEN rows[1].week ELSE m

get_current_week(sched) ==
    LET completed == get_game_results(sched)
    IN IF completed = <<>> THEN 0 ELSE max_week(completed)

(* ---- format_team_ranking, format_week_data ---- *)
format_team_ranking(team_data) ==
    [team |-> team_data.team,
     wins |-> team_data.wins,
     losses |-> team_data.losses,
     ties |-> team_data.ties,
     win_pct |-> team_data.win_pct,
     weighted_wins |-> team_data.weighted_wins,
     weighted_losses |-> team_data.weighted_losses,
     total |-> team_data.total]

format_week_data_resorted(week, rankings, now) ==
    [timestamp |-> now,
     week |-> week,
     season |-> CURRENT_SEASON,
     rankings |-> list_sort_reverse([i \in DOMAIN rankings |-> format_team_ranking(rankings[i])])]

(* now: the wall clock read by datetime.now *)
format_week_data(week, rankings, now) ==
    [timestamp |-> now,
     week |-> week,
     season |-> CURRENT_SEASON,
     rankings |-> [i \in DOMAIN rankings |-> format_team_ranking(rankings[i])]]

(* ---- the calls ----                                                    *)
(* The functions are pure and the script is single-threaded: a behaviour  *)
(* is one schedule and one call on it, op = "start" until the call.       *)
NoArgs == [team |-> 0, through_week |-> NULL, wins |-> 0, losses |-> 0, ties |-> 0]

(* the columns validate_data requires *)
required_fields == {"week", "home_team", "away_team", "home_score", "away_score", "result"}

(* a file of the data directory: absent, a complete JSON document, or the  *)
(* part of one that reached the disk before a write failed                 *)
NoData == [timestamp |-> 0, week |-> 0, season |-> 0, rankings |-> <<>>]

Absent == [kind |-> "absent", data |-> NoData]

Complete(data) == [kind |-> "complete", data |-> data]

Partial(data) == [kind |-> "partial", data |-> data]

NoFiles == [json |-> Absent, backup |-> Absent]

(* main and the frame of its call of fetch_nfl_data: outcomes lists what   *)
(* each call of import_schedules did, waits the sleeps; files0 is the data *)
(* directory as the run found it                                           *)
MainIdle ==
    [pc |-> "idle", attempt |-> 0, waits |-> <<>>, outcomes |-> <<>>,
     schedule |-> <<>>, valid |-> FALSE, current_week |-> 0, ranked |-> FALSE,
     rankings |-> <<>>, week_data |-> NoData, files0 |-> NoFiles]

SaveIdle ==
    [pc |-> "idle", data |-> NoData, shutil |-> FALSE, result |-> "none",
     before |-> NoFiles, calls |-> 0]

(* no run of main and no save in progress, an empty data directory *)
NoRun ==
    /\ columns = required_fields
    /\ main = MainIdle
    /\ save = SaveIdle
    /\ files = NoFiles

Init ==
    /\ DrawSchedule(Teams, MaxGames)
    /\ op = "start"
    /\ args = NoArgs
    /\ ret = <<>>
    /\ NoRun

InitSeason ==
    /\ DrawSchedule(Teams, MaxSeasonGames)
    /\ op = "start"
    /\ args = NoArgs
    /\ ret = <<>>
    /\ NoRun

GetGameResults ==
    /\ op = "start"
    /\ op' = "get_game_results"
    /\ args' = NoArgs
    /\ ret' = get_game_results(schedule)
    /\ UNCHANGED <<schedule, columns, main, save, files>>

GetTeamRecord ==
    \E team \in Teams, through_week \in Nullable(0..MaxWeek) :
        /\ op = "start"
        /\ op' = "get_team_record"
        /\ args' = [NoArgs EXCEPT !.team = team, !.through_week = through_week]
        /\ ret' = get_team_record(schedule, team, through_week)
        /\ UNCHANGED <<schedule, columns, main, save, files>>

CalculateWinPercentage ==
    \E wins \in 0..MaxCount, losses \in 0..MaxCount, ties \in 0..MaxCount :
        /\ op = "start"
        /\ op' = "calculate_win_percentage"
        /\ args' = [NoArgs EXCEPT !.wins = wins, !.losses = losses, !.ties = ties]
        /\ ret' = calculate_win_percentage(wins, losses, ties)
        /\ UNCHANGED <<schedule, columns, main, save, files>>

CalculateWeightedWins ==
    \E team \in Teams :
        /\ op = "start"
        /\ op' = "calculate_weighted_wins"
        /\ args' = [NoArgs EXCEPT !.team = team]
        /\ ret' = calculate_weighted_wins(schedule, team)
        /\ UNCHANGED <<schedule, columns, main, save, files>>

CalculateWeightedLosses ==
    \E team \in Teams :
        /\ op = "start"
        /\ op' = "calculate_weighted_losses"
        /\ args' = [NoArgs EXCEPT !.team = team]
        /\ ret' = calculate_weighted_losses(schedule, team)
        /\ UNCHANGED <<schedule, columns, main, save, files>>

CalculateAllRankings ==
    /\ op = "start"
    /\ op' = "calculate_all_rankings"
    /\ args' = NoArgs
    /\ ret' = calculate_all_rankings(schedule)
    /\ UNCHANGED <<schedule, columns, main, save, files>>

GetCurrentWeek ==
    /\ op = "start"
    /\ op' = "get_current_week"
    /\ args' = NoArgs
    /\ ret' = get_current_week(schedule)
    /\ UNCHANGED <<schedule, columns, main, save, files>>

(* rankings as calculate_all_rankings returns them, or in another order,   *)
(* or with a field the schema does not have                                *)
with_rank(rankings) ==
    [i \in DOMAIN rankings |->
        [team |-> rankings[i].team, wins |-> rankings[i].wins,
         losses |-> rankings[i].losses, ties |-> rankings[i].ties,
         win_pct |-> rankings[i].win_pct, weighted_wins |-> rankings[i].weighted_wins,
         weighted_losses |-> rankings[i].weighted_losses, total |-> rankings[i].total,
         rank |-> i]]

reversed(rankings) == [i \in DOMAIN rankings |-> rankings[Len(rankings) + 1 - i]]

FormatWeekData ==
    \E week \in 0..MaxWeek, now \in 1..MaxClock, extra \in BOOLEAN, backwards \in BOOLEAN :
        LET r0 == calculate_all_rankings(schedule)
            r1 == IF backwards THEN reversed(r0) ELSE r0
            rankings == IF extra THEN with_rank(r1) ELSE r1
        IN /\ op = "start"
           /\ op' = "format_week_data"
           /\ args' = [week |-> week, rankings |-> rankings]
           /\ ret' = format_week_data(week, rankings, now)
           /\ UNCHANGED <<schedule, columns, main, save, files>>

Next ==
    \/ GetCurrentWeek
    \/ FormatWeekData
    \/ GetGameResults
    \/ GetTeamRecord
    \/ CalculateWinPercentage
    \/ CalculateWeightedWins
    \/ CalculateWeightedLosses
    \/ CalculateAllRankings

Spec == Init /\ [][Next]_vars

NextSeason ==
    \/ CalculateWeightedWins
    \/ CalculateWeightedLosses
    \/ CalculateAllRankings

SpecSeason == InitSeason /\ [][NextSeason]_vars

InitLeague ==
    /\ DrawSchedule(1..NumLeagueTeams, MaxSeasonGames)
    /\ op = "start"
    /\ args = NoArgs
    /\ ret = <<>>
    /\ NoRun

NextLeague == CalculateAllRankings

SpecLeague == InitLeague /\ [][NextLeague]_vars

(* ---- fetch_nfl_data ---- *)
wait_time_constant(attempt) == RETRY_DELAY

wait_time(attempt) == RETRY_DELAY * (2 ^ attempt)

(* one pass of the retry loop; outcome is what import_schedules did: it    *)
(* raised, returned None, or returned the season's table (sched)           *)
fetch_attempt(m, outcome, sched) ==
    LET m1 == [m EXCEPT !.outcomes = Append(m.outcomes, outcome)]
    IN IF outcome = "raise"
       THEN IF m.attempt < MAX_RETRIES - 1
            THEN [m1 EXCEPT !.waits = Append(m.waits, wait_time(m.attempt)),
                            !.attempt = m.attempt + 1]
            ELSE [m1 EXCEPT !.pc = "fetched_none"]
       ELSE IF outcome = "none" \/ sched = <<>>
            THEN [m1 EXCEPT !.pc = "fetched_none"]
            ELSE [m1 EXCEPT !.pc = "fetched", !.schedule = sched]

(* ---- validate_data ---- *)
validate_data_without_result(cols) ==
    {field \in required_fields \ {"result"} : field \notin cols} = {}

validate_data(cols) ==
    LET missing_fields == {field \in required_fields : field \notin cols}
    IN missing_fields = {}

(* ---- main ---- *)
OldJson == [NoData EXCEPT !.season = CURRENT_SEASON]

OldBackup == [NoData EXCEPT !.season = CURRENT_SEASON - 1]

(* week_N.json and week_N.json.backup of the week being saved, as left by  *)
(* earlier runs                                                            *)
InitialFiles ==
    {[json |-> j, backup |-> b] :
        j \in {Absent, Complete(OldJson)}, b \in {Absent, Complete(OldBackup)}}

(* the frame fetched has all required columns, or lacks one of them *)
ColumnSets == {required_fields} \cup {required_fields \ {f} : f \in required_fields}

InitMain ==
    /\ DrawSchedule(Teams, MaxGames)
    /\ op = "main"
    /\ args = NoArgs
    /\ ret = <<>>
    /\ columns = required_fields
    /\ save = SaveIdle
    /\ files \in InitialFiles
    /\ main = [MainIdle EXCEPT !.pc = "fetch", !.files0 = files]

FetchAttempt ==
    \E outcome \in {"raise", "none", "data"} :
        /\ main.pc = "fetch"
        /\ main' = fetch_attempt(main, outcome, schedule)
        /\ UNCHANGED <<schedule, op, args, ret, columns, save, files>>

MainNoData ==
    /\ main.pc = "fetched_none"
    /\ main' = [main EXCEPT !.pc = "exit_no_data",
                            !.attempt = 0, !.waits = <<>>, !.outcomes = <<>>]
    /\ UNCHANGED <<schedule, op, args, ret, columns, save, files>>

(* the columns of the fetched frame are read here first *)
MainValidate ==
    \E cols \in ColumnSets :
        /\ main.pc = "fetched"
        /\ columns' = cols
        /\ main' = [main EXCEPT !.valid = validate_data(cols),
                                !.pc = IF validate_data(cols)
                                       THEN "current_week" ELSE "exit_invalid",
                                !.attempt = 0, !.waits = <<>>, !.outcomes = <<>>]
        /\ UNCHANGED <<schedule, op, args, ret, save, files>>

MainCurrentWeek ==
    /\ main.pc = "current_week"
    /\ main' = [main EXCEPT !.current_week = get_current_week(main.schedule),
                            !.pc = IF get_current_week(main.schedule) < 2
                                   THEN "exit_early" ELSE "rankings"]
    /\ UNCHANGED <<schedule, op, args, ret, columns, save, files>>

MainRankings ==
    /\ main.pc = "rankings"
    /\ main' = [main EXCEPT !.rankings = calculate_all_rankings(main.schedule),
                            !.ranked = TRUE,
                            !.pc = "format"]
    /\ UNCHANGED <<schedule, op, args, ret, columns, save, files>>

MainFormat ==
    \E now \in 1..MaxClock :
        /\ main.pc = "format"
        /\ main' = [main EXCEPT
                        !.week_data = format_week_data(main.current_week, main.rankings, now),
                        !.pc = "save"]
        /\ UNCHANGED <<schedule, op, args, ret, columns, save, files>>

(* ---- save_json_snapshot ---- *)
save_call(sv, data, fs) ==
    [pc |-> "mkdir", data |-> data, shutil |-> FALSE, result |-> "none",
     before |-> fs, calls |-> sv.calls + 1]

save_return(sv, result) == [sv EXCEPT !.pc = "returned", !.result = result]

MainSave ==
    /\ main.pc = "save"
    /\ save' = save_call(save, main.week_data, files)
    /\ main' = [main EXCEPT !.pc = "saving"]
    /\ UNCHANGED <<schedule, op, args, ret, columns, files>>

(* output_path.mkdir: an error goes to the handler of Exception *)
SaveMkdir ==
    \E ok \in BOOLEAN :
        /\ save.pc = "mkdir"
        /\ save' = IF ok THEN [save EXCEPT !.pc = "backup"] ELSE save_return(save, "False")
        /\ UNCHANGED <<schedule, op, args, ret, columns, main, files>>

(* if output_file.exists(): import shutil; copy2 to the backup.  A copy    *)
(* that fails leaves the backup as it was or cut short, and is only logged *)
SaveBackup ==
    \E outcome \in {"copied", "failed", "failed_midway"} :
        /\ save.pc = "backup"
        /\ IF files.json.kind = "absent"
           THEN /\ outcome = "copied"
                /\ save' = [save EXCEPT !.pc = "open"]
                /\ UNCHANGED files
           ELSE /\ save' = [save EXCEPT !.pc = "open", !.shutil = TRUE]
                /\ files' = [files EXCEPT !.backup =
                                CASE outcome = "copied" -> files.json
                                  [] outcome = "failed" -> files.backup
                                  [] OTHER -> Partial(files.json.data)]
        /\ UNCHANGED <<schedule, op, args, ret, columns, main>>

(* open(output_file, 'w') truncates the file *)
SaveOpen ==
    \E ok \in BOOLEAN :
        /\ save.pc = "open"
        /\ IF ok
           THEN /\ files' = [files EXCEPT !.json = Partial(save.data)]
                /\ save' = [save EXCEPT !.pc = "dump"]
           ELSE /\ save' = save_return(save, "False")
                /\ UNCHANGED files
        /\ UNCHANGED <<schedule, op, args, ret, columns, main>>

(* json.dump and the close of the file *)
SaveDump ==
    \E ok \in BOOLEAN :
        /\ save.pc = "dump"
        /\ IF ok
           THEN /\ files' = [files EXCEPT !.json = Complete(save.data)]
                /\ save' = [save EXCEPT !.pc = "verify"]
           ELSE /\ save' = save_return(save, "False")
                /\ UNCHANGED files
        /\ UNCHANGED <<schedule, op, args, ret, columns, main>>

(* the read back: json.load parses the file, or the file is no longer      *)
(* there (else branch), or the read fails (handler of Exception), or what  *)
(* is on the disk is not a JSON document (JSONDecodeError)                 *)
SaveVerify ==
    \E outcome \in {"parsed", "missing", "read_error", "decode_error"} :
        /\ save.pc = "verify"
        /\ save' = CASE outcome = "parsed" -> save_return(save, "True")
                     [] outcome \in {"missing", "read_error"} -> save_return(save, "False")
                     [] OTHER -> [save EXCEPT !.pc = "restore"]
        /\ files' = CASE outcome = "decode_error" -> [files EXCEPT !.json = Partial(save.data)]
                      [] outcome = "missing" -> [files EXCEPT !.json = Absent]
                      [] OTHER -> files
        /\ UNCHANGED <<schedule, op, args, ret, columns, main>>

(* the handler of JSONDecodeError: shutil is a local name, bound only by   *)
(* the import in the backup branch; an exception here leaves the function  *)
SaveRestore ==
    \E ok \in BOOLEAN :
        /\ save.pc = "restore"
        /\ IF files.backup.kind = "absent"
           THEN /\ ok
                /\ save' = save_return(save, "False")
                /\ UNCHANGED files
           ELSE IF ~save.shutil
                THEN /\ ok
                     /\ save' = save_return(save, "raised")
                     /\ UNCHANGED files
                ELSE IF ok
                     THEN /\ files' = [files EXCEPT !.json = files.backup]
                          /\ save' = save_return(save, "False")
                     ELSE /\ save' = save_return(save, "raised")
                          /\ UNCHANGED files
        /\ UNCHANGED <<schedule, op, args, ret, columns, main>>

MainAfterSave ==
    /\ main.pc = "saving"
    /\ save.pc = "returned"
    /\ main' = [main EXCEPT !.pc = CASE save.result = "True" -> "done"
                                     [] save.result = "False" -> "exit_save_failed"
                                     [] OTHER -> "raised"]
    /\ UNCHANGED <<schedule, op, args, ret, columns, save, files>>

NextMain ==
    \/ FetchAttempt
    \/ MainNoData
    \/ MainValidate
    \/ MainCurrentWeek
    \/ MainRankings
    \/ MainFormat
    \/ MainSave
    \/ SaveMkdir
    \/ SaveBackup
    \/ SaveOpen
    \/ SaveDump
    \/ SaveVerify
    \/ SaveRestore
    \/ MainAfterSave

SpecMain == InitMain /\ [][NextMain]_vars

(* ---- save_json_snapshot called again and again for one week ---- *)
InitSave ==
    /\ schedule = <<>>
    /\ op = "save_json_snapshot"
    /\ args = NoArgs
    /\ ret = <<>>
    /\ columns = required_fields
    /\ main = MainIdle
    /\ save = SaveIdle
    /\ files \in InitialFiles

(* the snapshot of the k-th call carries the timestamp k *)
SaveCall ==
    /\ op = "save_json_snapshot"
    /\ save.pc \in {"idle", "returned"}
    /\ save.calls < MaxSaves
    /\ save' = save_call(save, [NoData EXCEPT !.timestamp = save.calls + 1,
                                              !.season = CURRENT_SEASON], files)
    /\ UNCHANGED <<schedule, op, args, ret, columns, main, files>>

NextSave ==
    \/ SaveCall
    \/ SaveMkdir
    \/ SaveBackup
    \/ SaveOpen
    \/ SaveDump
    \/ SaveVerify
    \/ SaveRestore

SpecSave == InitSave /\ [][NextSave]_vars

(***************************************************************************)
(* The claims.  They are stated over the rows of the schedule, with        *)
(* "completed" as the specification defines it: both scores present.       *)
(***************************************************************************)
Completed(g) == notna(g.home_score) /\ notna(g.away_score)

CompletedRows == {i \in DOMAIN schedule : Completed(schedule[i])}

RowsThrough(week) == {i \in CompletedRows : schedule[i].week <= week}

WonRows(rows, team) ==
    {i \in rows : \/ schedule[i].home_team = team /\ schedule[i].result[1] > 0
                  \/ schedule[i].away_team = team /\ schedule[i].result[1] < 0}

LostRows(rows, team) ==
    {i \in rows : \/ schedule[i].home_team = team /\ schedule[i].result[1] < 0
                  \/ schedule[i].away_team = team /\ schedule[i].result[1] > 0}

TiedRows(rows, team) ==
    {i \in rows : /\ team \in {schedule[i].home_team, schedule[i].away_team}
                  /\ schedule[i].result[1] = 0}

RecordOver(rows, team) ==
    [wins |-> Cardinality(WonRows(rows, team)),
     losses |-> Cardinality(LostRows(rows, team)),
     ties |-> Cardinality(TiedRows(rows, team))]

OpponentIn(i, team) ==
    IF schedule[i].home_team = team THEN schedule[i].away_team ELSE schedule[i].home_team

RECURSIVE SumOver(_, _)
SumOver(f, S) ==
    IF S = {}
    THEN 0
    ELSE LET x == CHOOSE y \in S : TRUE
         IN f[x] + SumOver(f, S \ {x})

CompletedTeams ==
    {schedule[i].home_team : i \in CompletedRows} \cup {schedule[i].away_team : i \in CompletedRows}

(* C1: the list returned by calculate_all_rankings is sorted descending by *)
(* total: every adjacent pair has rankings[i].total >= rankings[i+1].total *)
C1_SortedDescending ==
    op = "calculate_all_rankings" =>
        \A i \in 1..(Len(ret) - 1) : ret[i].total >= ret[i + 1].total

C1_Witness ==
    /\ op = "calculate_all_rankings"
    /\ Len(ret) = 3
    /\ ret[1].total > ret[2].total
    /\ ret[2].total > ret[3].total
    /\ ret[1].team > ret[3].team

(* C2: in the output of calculate_all_rankings two teams with equal total  *)
(* appear in ascending order of their team code                            *)
C2_TiesInTeamOrder ==
    op = "calculate_all_rankings" =>
        \A i \in DOMAIN ret : \A j \in DOMAIN ret :
            (i < j /\ ret[i].total = ret[j].total) => ret[i].team < ret[j].team

C2_Witness ==
    /\ op = "calculate_all_rankings"
    /\ \E i \in DOMAIN ret : \E j \in DOMAIN ret : \E m \in DOMAIN ret :
          /\ i < j
          /\ j < m
          /\ ret[i].total = ret[j].total
          /\ ret[i].total # 0
          /\ ret[m].team < ret[i].team

(* C3: get_team_record without a week limit counts, over completed games,  *)
(* a win per game won at home (result > 0) or away (result < 0), a loss    *)
(* per game lost, a tie per game with result 0; a team in no completed     *)
(* game gets 0, 0, 0                                                       *)
C3_RecordCounts ==
    (op = "get_team_record" /\ args.through_week = NULL) =>
        /\ ret = RecordOver(CompletedRows, args.team)
        /\ (args.team \notin CompletedTeams => ret = [wins |-> 0, losses |-> 0, ties |-> 0])

C3_Witness ==
    /\ op = "get_team_record"
    /\ args.through_week = NULL
    /\ ret.wins = 1
    /\ ret.ties = 1
    /\ \E i \in DOMAIN schedule :
          schedule[i].away_team = args.team /\ lt0(schedule[i].result)

(* C4: a game is returned by get_game_results if and only if both its      *)
(* home_score and its away_score are non-null                              *)
C4_CompletedIffBothScores ==
    op = "get_game_results" =>
        /\ \A i \in DOMAIN ret : Completed(ret[i])
        /\ ret = SelectSeq(schedule, Completed)

(* C5: for every through_week >= 0 get_team_record counts only completed   *)
(* games with week <= through_week, and all completed games when           *)
(* through_week is omitted                                                 *)
C5_ThroughWeekBounds ==
    op = "get_team_record" =>
        ret = RecordOver(IF args.through_week = NULL
                         THEN CompletedRows
                         ELSE RowsThrough(args.through_week[1]),
                         args.team)

(* C6: calculate_weighted_wins is the sum, once per completed game the     *)
(* team won, of the opponent's full-season win count; 0 with no wins       *)
C6_WeightedWins ==
    op = "calculate_weighted_wins" =>
        LET won == WonRows(CompletedRows, args.team)
            opp_wins == [i \in won |->
                            Cardinality(WonRows(CompletedRows, OpponentIn(i, args.team)))]
        IN /\ ret = SumOver(opp_wins, won)
           /\ (won = {} => ret = 0)

C6_Witness ==
    /\ op = "calculate_weighted_wins"
    /\ ret = 2
    /\ \E i \in WonRows(CompletedRows, args.team) :
       \E j \in WonRows(CompletedRows, args.team) :
          /\ i # j
          /\ OpponentIn(i, args.team) = OpponentIn(j, args.team)
          /\ schedule[i].week < schedule[j].week

(* C7: calculate_weighted_losses is minus the sum, once per completed game *)
(* the team lost, of the opponent's full-season loss count; it is <= 0,    *)
(* also in every ranking entry, and 0 with no losses                       *)
C7_WeightedLosses ==
    /\ op = "calculate_weighted_losses" =>
          LET lost == LostRows(CompletedRows, args.team)
              opp_losses == [i \in lost |->
                                Cardinality(LostRows(CompletedRows, OpponentIn(i, args.team)))]
          IN /\ ret = 0 - SumOver(opp_losses, lost)
             /\ ret <= 0
             /\ (lost = {} => ret = 0)
    /\ op = "calculate_all_rankings" =>
          \A i \in DOMAIN ret : ret[i].weighted_losses <= 0

C7_Witness ==
    /\ op = "calculate_weighted_losses"
    /\ ret = 0 - 2
    /\ Cardinality(LostRows(CompletedRows, args.team)) = 2
    /\ Cardinality(WonRows(CompletedRows, args.team)) = 1

(* C8: every entry returned by calculate_all_rankings has                  *)
(* total = weighted_wins + weighted_losses, on the rounded values emitted  *)
C8_TotalIsSum ==
    op = "calculate_all_rankings" =>
        \A i \in DOMAIN ret : ret[i].total = ret[i].weighted_wins + ret[i].weighted_losses

C8_Witness ==
    /\ op = "calculate_all_rankings"
    /\ \E i \in DOMAIN ret :
          /\ ret[i].weighted_wins > 0
          /\ ret[i].weighted_losses < 0
          /\ ret[i].total # 0

(* C9: calculate_win_percentage returns 0 when no game was played and      *)
(* (wins + ties/2) / (wins + losses + ties) otherwise; the result lies in  *)
(* [0, 1], and so does win_pct of every ranking entry                      *)
C9_WinPercentage ==
    /\ op = "calculate_win_percentage" =>
          LET total_games == args.wins + args.losses + args.ties
          IN /\ ret.den > 0
             /\ (total_games = 0 => ret.num = 0)
             /\ (total_games > 0 =>
                    ret.num * 2 * total_games = (2 * args.wins + args.ties) * ret.den)
             /\ 0 <= ret.num
             /\ ret.num <= ret.den
    /\ op = "calculate_all_rankings" =>
          \A i \in DOMAIN ret : 0 <= ret[i].win_pct /\ ret[i].win_pct <= 1000

C9_Witness ==
    /\ op = "calculate_win_percentage"
    /\ args.wins = 1
    /\ args.losses = 1
    /\ args.ties = 1
    /\ ret.num * 2 = ret.den

(* C10: the teams in the output of calculate_all_rankings are exactly the  *)
(* home and away teams of completed games, each once                       *)
C10_TeamUniverse ==
    op = "calculate_all_rankings" =>
        /\ {ret[i].team : i \in DOMAIN ret} = CompletedTeams
        /\ Len(ret) = Cardinality(CompletedTeams)

(* C11: format_week_data returns a snapshot with the week given, the     *)
(* season CURRENT_SEASON, and the rankings in the order received, each     *)
(* entry with exactly the eight schema fields, equal to the input's        *)
RankingFields ==
    {"team", "wins", "losses", "ties", "win_pct", "weighted_wins", "weighted_losses", "total"}

C11_FormatPassesThrough ==
    op = "format_week_data" =>
        /\ ret.week = args.week
        /\ ret.season = CURRENT_SEASON
        /\ Len(ret.rankings) = Len(args.rankings)
        /\ \A i \in DOMAIN args.rankings :
              /\ DOMAIN ret.rankings[i] = RankingFields
              /\ \A f \in RankingFields : ret.rankings[i][f] = args.rankings[i][f]

C11_Witness ==
    /\ op = "format_week_data"
    /\ Len(args.rankings) = 3
    /\ args.rankings[1].total < args.rankings[3].total
    /\ "rank" \in DOMAIN args.rankings[1]
    /\ ret.rankings[1].team = args.rankings[1].team
    /\ ret.week = 2

(* C17: get_current_week returns the largest week among completed games,   *)
(* and 0 when no game is completed                                         *)
C17_CurrentWeek ==
    op = "get_current_week" =>
        /\ (CompletedRows = {} => ret = 0)
        /\ (CompletedRows # {} =>
               /\ \E i \in CompletedRows : schedule[i].week = ret
               /\ \A i \in CompletedRows : schedule[i].week <= ret)

(* C19: the totals of all entries returned by calculate_all_rankings sum   *)
(* to 0: the weighted wins and the negated weighted losses both sum to     *)
(* the sum over teams of wins * losses                                     *)
C19_ZeroSum ==
    op = "calculate_all_rankings" =>
        LET idx == DOMAIN ret
            products == SumOver([i \in idx |-> ret[i].wins * ret[i].losses], idx)
        IN /\ SumOver([i \in idx |-> ret[i].total], idx) = 0
           /\ SumOver([i \in idx |-> ret[i].weighted_wins], idx) = 100 * products
           /\ SumOver([i \in idx |-> ret[i].weighted_losses], idx) = 0 - 100 * products

C19_Witness ==
    /\ op = "calculate_all_rankings"
    /\ Len(ret) = 3
    /\ ret[1].total > 0
    /\ \E i \in DOMAIN ret : ret[i].wins * ret[i].losses >= 2

(* C18: fetch_nfl_data calls the source at most MAX_RETRIES times, and     *)
(* again only after a call that raised; before the retry after the failed  *)
(* attempt k (counted from 0) it waits RETRY_DELAY * 2^k seconds, and not  *)
(* after the last; it returns the schedule of the first call that did not  *)
(* raise when that has rows, and None when that call gave None or no rows  *)
(* or when every call raised.                                              *)
C18_FetchRetries ==
    main.pc \in {"fetch", "fetched", "fetched_none"} =>
        LET o == main.outcomes
            n == Len(o)
            raised == Cardinality({i \in 1..n : o[i] = "raise"})
        IN /\ n <= MAX_RETRIES
           /\ \A i \in 1..(n - 1) : o[i] = "raise"
           /\ Len(main.waits) = (IF raised = MAX_RETRIES THEN MAX_RETRIES - 1 ELSE raised)
           /\ \A k \in DOMAIN main.waits : main.waits[k] = RETRY_DELAY * (2 ^ (k - 1))
           /\ (main.pc = "fetch" => n < MAX_RETRIES /\ raised = n)
           /\ (main.pc = "fetched" =>
                   /\ o[n] = "data"
                   /\ schedule # <<>>
                   /\ main.schedule = schedule)
           /\ (main.pc = "fetched_none" =>
                   \/ o[n] = "none"
                   \/ o[n] = "data" /\ schedule = <<>>
                   \/ n = MAX_RETRIES /\ raised = n)

C18_Witness ==
    /\ main.pc = "fetched"
    /\ main.outcomes = <<"raise", "raise", "data">>
    /\ main.waits = <<2, 4>>
    /\ Len(main.schedule) = 2

(* C13: validate_data is true exactly when the frame has every required    *)
(* column; a run of main whose frame lacks one computes no rankings, never *)
(* calls save_json_snapshot and leaves the data files as it found them.    *)
C13_InvalidDataNoOutput ==
    /\ main.pc \in {"current_week", "exit_early", "rankings", "format", "save",
                    "saving", "done", "exit_save_failed", "raised"}
            => main.valid /\ required_fields \subseteq columns
    /\ main.pc = "exit_invalid" =>
            /\ ~main.valid
            /\ ~(required_fields \subseteq columns)
            /\ ~main.ranked
            /\ save.calls = 0
            /\ files = main.files0

C13_Witness ==
    /\ main.pc = "exit_invalid"
    /\ columns = required_fields \ {"result"}
    /\ files.json = Complete(OldJson)
    /\ Len(main.schedule) = 2

(* C12: a run of main computes rankings or calls save_json_snapshot only   *)
(* when completed games (both scores recorded) exist in at least two       *)
(* different weeks.                                                        *)
C12_TwoCompletedWeeks ==
    op = "main" /\ (main.ranked \/ save.calls > 0) =>
        Cardinality({schedule[i].week : i \in CompletedRows}) >= 2

(* C14: when save_json_snapshot has returned and week_N.json existed       *)
(* before the call and no longer holds what it held, week_N.json.backup    *)
(* holds that prior content.                                               *)
C14_BackupHoldsPrior ==
    save.pc = "returned" /\ save.before.json.kind # "absent"
                         /\ files.json # save.before.json
        => files.backup = save.before.json

(* C15: after a run of main, week_N.json is absent, or is as the run found *)
(* it, or is the complete snapshot of this run: never a partial document.  *)
C15_NoPartialSnapshot ==
    main.pc \in {"done", "exit_save_failed", "raised"} =>
        \/ files.json.kind = "absent"
        \/ files.json = main.files0.json
        \/ files.json = Complete(main.week_data)

(* C16: save_json_snapshot always returns: True when the file written      *)
(* parsed on the read back, False on any failure; no exception leaves it.  *)
C16_SaveNeverRaises ==
    save.pc = "returned" =>
        /\ save.result \in {"True", "False"}
        /\ (save.result = "True" => files.json = Complete(save.data))


====
